---- MODULE Spec2Model ----
(***************************************************************************)
(* django-cyclebufferfield: a fixed-size ring buffer kept in cycle_size    *)
(* slot columns plus a pointer column and a length column of one row.      *)
(* The model follows src/cycle_buffer/fields.py: CycleBufferField (the     *)
(* layout), CycleBufferDescriptor.__get__ (the read), and CycleBuffer      *)
(* append_object (staged append) / append_database (one UPDATE statement). *)
(***************************************************************************)
EXTENDS Integers, Sequences, FiniteSets, TLC

(* ------------------------------ bounds --------------------------------- *)
MaxCycleSize == 3
MaxAppends == 6
MaxRaceAppends == 4
MaxRawAppends == 1
MaxFKAppends == 3
MaxStagedAppends == 3
MaxRowsAppends == 3

Clients == {"c1", "c2"}
Values == {"a", "b"}
UserKeys == {"u1", "u2"}

(* Python's None, as the value of a null slot and of "no exception". *)
None == "None"
(* obj.pk of an instance that was never saved (None; saved rows count from 1). *)
NoPk == 0
(* The default of a TextField slot declared without null=True. *)
EmptyText == ""

VARIABLES
    cycle_size,   \* CycleBufferField.cycle_size of the record type
    is_fk,        \* the prototype slot is a ForeignKey(User, null=True)
    phase,        \* "declared" (field constructed) / "ready" (contributed to the class)
    users,        \* keys of the User rows that exist in storage
    table,        \* persisted rows of the record type: pk -> [ptr, len, slots]
    nextpk,       \* next value of the auto-increment primary key
    inst,         \* in-memory record instance of each client that holds one
    cache,        \* per client: slot indices whose related object is cached
    stmt,         \* per client: the UPDATE statement built and not yet executed
    outcome,      \* per client: how its last call ended
    reading,      \* per client inside __get__: position of the next slot line 180 fetches
    returned,     \* per client: the list its last completed read returned
    hist,         \* ghost: values appended, in order, to reach inst[c]
    log,          \* ghost: values appended, in order, to reach table[pk]
    atomic,       \* ghost: pks whose row was written by INSERT and append_database only
    writers,      \* ghost: per row, the clients whose UPDATE statements it has taken
    staging,      \* ghost: per client, "clean" (no staged append since the instance
                  \*        was made or loaded), "dirty" (a staged append not saved),
                  \*        "flushed" (saved after its last staged append)
    credit        \* ghost: number of appends the exploration still allows

vars == <<cycle_size, is_fk, phase, users, table, nextpk, inst, cache, stmt,
          outcome, reading, returned, hist, log, atomic, writers, staging, credit>>

Min(a, b) == IF a < b THEN a ELSE b

(* --------------------------- layout planner ---------------------------- *)
(* CycleBufferField.__init__ stores the capacity it is given, unchecked. *)
CycleBufferField_init(size) == [cycle_size |-> size, error |-> None]

(* CycleBufferDescriptor.__init__: the slot names name_0 .. name_{n-1},   *)
(* held here by their numeric suffix.                                      *)
buffer_entries == [i \in 1..cycle_size |-> i - 1]

SlotIdx == 0..(cycle_size - 1)

SlotDefault == IF is_fk THEN None ELSE EmptyText

(* A new instance: IntegerField(default=0) for pointer and length, every  *)
(* slot at the default of the prototype field, no primary key yet.        *)
FreshInstance ==
    [pk |-> NoPk, ptr |-> 0, len |-> 0, slots |-> [i \in SlotIdx |-> SlotDefault]]

(* ------------------------------ the read ------------------------------- *)
(* Python's s[lo:hi] for 0 <= lo, 0 <= hi: both ends are clamped to len(s). *)
Slice(s, lo, hi) == SubSeq(s, Min(lo, Len(s)) + 1, Min(hi, Len(s)))

(* The slot indices __get__ selects (fields.py lines 172-178). *)
indexes(obj) ==
    Slice(buffer_entries, obj.ptr, obj.ptr + obj.len) \o Slice(buffer_entries, 0, obj.ptr)

(* A User object, and the marker in_bulk's dict.get(pk, None) gives for a *)
(* key that has no row.                                                    *)
UserObj(key) == [pk |-> key]
MissingMarker == [pk |-> None]

(* getattr(obj, slot) of a ForeignKey slot: None for a null key, the cached *)
(* object if there is one, else a query that raises DoesNotExist when the   *)
(* row is gone.                                                             *)
RelatedRaises(obj, cached, idx) ==
    /\ obj.slots[idx] # None
    /\ idx \notin cached
    /\ obj.slots[idx] \notin users

(* CycleBufferDescriptor.__get__ run with no change of storage during it:  *)
(* the list the buffer reads as, or the exception the read ends with.      *)
Get(obj, cached) ==
    LET idxs   == indexes(obj)
        result == [i \in 1..Len(idxs) |-> obj.slots[idxs[i]]]
        pks    == result
    IN  IF ~is_fk
        THEN [error |-> None, value |-> result]
        ELSE IF \E i \in 1..Len(idxs) : RelatedRaises(obj, cached, idxs[i])
        THEN [error |-> "DoesNotExist", value |-> <<>>]
        ELSE [error |-> None,
              value |-> [i \in 1..Len(pks) |->
                            IF pks[i] \in users THEN UserObj(pks[i]) ELSE MissingMarker]]

(* The slots whose related object such a read leaves cached: getattr runs  *)
(* over the selected slots in order and stops at the first one that raises. *)
CacheAfterGet(obj, cached) ==
    LET idxs == indexes(obj)
        bad  == {i \in 1..Len(idxs) : RelatedRaises(obj, cached, idxs[i])}
        stop == IF bad = {} THEN Len(idxs) + 1
                ELSE CHOOSE i \in bad : \A j \in bad : i <= j
    IN  cached \cup {idxs[i] : i \in {j \in 1..Len(idxs) : j < stop /\ obj.slots[idxs[j]] # None}}

(* --------------------------- staged append ----------------------------- *)
(* append_object as it would be with the pointer advance on a full buffer  *)
(* left out.                                                                *)
append_object_NoAdvance(obj, key) ==
    IF cycle_size = 0
    THEN [error |-> "ZeroDivisionError", obj |-> obj]
    ELSE [error |-> None,
          obj   |-> [obj EXCEPT !.slots[(obj.ptr + obj.len) % cycle_size] = key,
                                !.len = Min(obj.len + 1, cycle_size)]]

(* append_object as a shifting buffer: once full, every slot moves down    *)
(* one place and the value goes last, the pointer staying where it is.     *)
append_object_Shift(obj, key) ==
    IF cycle_size = 0
    THEN [error |-> "ZeroDivisionError", obj |-> obj]
    ELSE IF obj.len < cycle_size
    THEN [error |-> None,
          obj   |-> [obj EXCEPT !.slots[(obj.ptr + obj.len) % cycle_size] = key,
                                !.len = obj.len + 1]]
    ELSE [error |-> None,
          obj   |-> [obj EXCEPT !.slots = [i \in SlotIdx |->
                                              IF i = cycle_size - 1
                                              THEN key
                                              ELSE obj.slots[i + 1]]]]

(* append_object with the pointer advanced on every append, full or not. *)
append_object_AlwaysAdvance(obj, key) ==
    IF cycle_size = 0
    THEN [error |-> "ZeroDivisionError", obj |-> obj]
    ELSE [error |-> None,
          obj   |-> [obj EXCEPT !.slots[(obj.ptr + obj.len) % cycle_size] = key,
                                !.ptr = (obj.ptr + 1) % cycle_size,
                                !.len = Min(obj.len + 1, cycle_size)]]

(* CycleBuffer.append_object (fields.py lines 138-151).  key is what the   *)
(* slot attribute holds after setattr: the value itself, or the pk of the  *)
(* related object.  With cycle_size = 0 the modulo raises before any       *)
(* attribute is set.                                                        *)
append_object(obj, key) ==
    IF cycle_size = 0
    THEN [error |-> "ZeroDivisionError", obj |-> obj]
    ELSE LET head_ptr       == obj.ptr
             buffer_len     == obj.len
             target         == (head_ptr + buffer_len) % cycle_size
             new_buffer_len == Min(buffer_len + 1, cycle_size)
             new_head_ptr   == IF buffer_len = cycle_size
                               THEN (head_ptr + 1) % cycle_size
                               ELSE head_ptr
         IN  [error |-> None,
              obj   |-> [obj EXCEPT !.slots[target] = key,
                                    !.ptr = new_head_ptr,
                                    !.len = new_buffer_len]]

(* The key a value is stored as: value.pk for a model instance. *)
KeyOf(value) == IF is_fk THEN value.pk ELSE value

(* The values a caller may append. *)
Appendable == IF is_fk THEN {UserObj(k) : k \in UserKeys} ELSE Values

(* gen_values as it would be with the pointer and length assignments      *)
(* generated before the slot assignments.                                  *)
gen_values_PointerFirst ==
    [k \in 1..(cycle_size + 2) |->
        IF k = 1 THEN [col |-> "ptr", idx |-> k - 1]
        ELSE IF k = 2 THEN [col |-> "len", idx |-> k - 1]
        ELSE [col |-> "slot", idx |-> k - 3]]

(* --------------------------- atomic append ----------------------------- *)
(* CycleBuffer.append_database.gen_values (fields.py lines 100-116): the   *)
(* assignments of the UPDATE statement in the order they are generated,    *)
(* one per slot column, then the pointer column, then the length column.   *)
gen_values ==
    [k \in 1..(cycle_size + 2) |->
        IF k <= cycle_size THEN [col |-> "slot", idx |-> k - 1]
        ELSE IF k = cycle_size + 1 THEN [col |-> "ptr", idx |-> k - 1]
        ELSE [col |-> "len", idx |-> k - 1]]

(* CaseValue with the length assignment left unclamped (len = len + 1). *)
CaseValue_NoClamp(a, row, value) ==
    IF a.col = "slot"
    THEN IF (row.ptr + row.len) % cycle_size = a.idx THEN value ELSE row.slots[a.idx]
    ELSE IF a.col = "ptr"
    THEN IF row.len = cycle_size THEN (row.ptr + 1) % cycle_size ELSE row.ptr
    ELSE row.len + 1

(* CaseValue with the pointer advanced one append early (len + 1 compared  *)
(* with cycle_size).                                                        *)
CaseValue_EarlyAdvance(a, row, value) ==
    IF a.col = "slot"
    THEN IF (row.ptr + row.len) % cycle_size = a.idx THEN value ELSE row.slots[a.idx]
    ELSE IF a.col = "ptr"
    THEN IF row.len + 1 = cycle_size THEN (row.ptr + 1) % cycle_size ELSE row.ptr
    ELSE IF (IF row.len + 1 > cycle_size THEN 1 ELSE 0) = 1
         THEN cycle_size
         ELSE row.len + 1

(* CaseValue with the slot target taken from the length alone. *)
CaseValue_TargetLen(a, row, value) ==
    IF a.col = "slot"
    THEN IF row.len % cycle_size = a.idx THEN value ELSE row.slots[a.idx]
    ELSE IF a.col = "ptr"
    THEN IF row.len = cycle_size THEN (row.ptr + 1) % cycle_size ELSE row.ptr
    ELSE IF (IF row.len + 1 > cycle_size THEN 1 ELSE 0) = 1
         THEN cycle_size
         ELSE row.len + 1

(* The right-hand side of one assignment, evaluated on a row image.       *)
(*   slot i : CASE (ptr + len) % cycle_size WHEN i THEN value ELSE slot_i  *)
(*   ptr    : CASE len WHEN cycle_size THEN (ptr + 1) % cycle_size ELSE ptr *)
(*   len    : CASE len + 1 > cycle_size WHEN 1 THEN cycle_size ELSE len + 1 *)
(* The comparison in the last one is the engine's integer truth value.     *)
CaseValue(a, row, value) ==
    IF a.col = "slot"
    THEN IF (row.ptr + row.len) % cycle_size = a.idx THEN value ELSE row.slots[a.idx]
    ELSE IF a.col = "ptr"
    THEN IF row.len = cycle_size THEN (row.ptr + 1) % cycle_size ELSE row.ptr
    ELSE IF (IF row.len + 1 > cycle_size THEN 1 ELSE 0) = 1
         THEN cycle_size
         ELSE row.len + 1

SetColumn(a, row, x) ==
    IF a.col = "slot" THEN [row EXCEPT !.slots[a.idx] = x]
    ELSE IF a.col = "ptr" THEN [row EXCEPT !.ptr = x]
    ELSE [row EXCEPT !.len = x]

(* How an engine evaluates the SET list: every right-hand side on the row  *)
(* as it was before the statement ("snapshot"), or left to right with each *)
(* right-hand side seeing the columns already assigned ("sequential").     *)
EvalModes == {"snapshot", "sequential"}

RECURSIVE RunAssignments(_, _, _, _, _, _)
RunAssignments(assignments, k, old, cur, value, mode) ==
    IF k > Len(assignments)
    THEN cur
    ELSE LET a     == assignments[k]
             image == IF mode = "snapshot" THEN old ELSE cur
         IN  RunAssignments(assignments, k + 1, old,
                            SetColumn(a, cur, CaseValue(a, image, value)), value, mode)

(* The pointer assignment takes a modulo by cycle_size; with cycle_size 0  *)
(* and len = cycle_size the engine has no value for it and the statement   *)
(* changes nothing.                                                         *)
UpdateFails(row) == cycle_size = 0 /\ row.len = cycle_size

(* append_database as it would be with the slot columns written by one    *)
(* statement and pointer and length left to a later one.                   *)
append_database_SlotsOnly(row, value, mode) ==
    IF UpdateFails(row)
    THEN row
    ELSE RunAssignments(SubSeq(gen_values, 1, cycle_size), 1, row, row, value, mode)

(* The row after  UPDATE .. SET <gen_values> WHERE pk = ..  (line 119). *)
append_database(row, value, mode) ==
    IF UpdateFails(row)
    THEN row
    ELSE RunAssignments(gen_values, 1, row, row, value, mode)

(* ------------------------- state and operations ------------------------ *)
Put(f, k, v) == [x \in (DOMAIN f) \cup {k} |-> IF x = k THEN v ELSE f[x]]
Drop(f, k) == [x \in (DOMAIN f) \ {k} |-> f[x]]

RowOf(obj) == [ptr |-> obj.ptr, len |-> obj.len, slots |-> obj.slots]
InstanceOf(pk, row) == [pk |-> pk, ptr |-> row.ptr, len |-> row.len, slots |-> row.slots]

Idle(c) == c \notin DOMAIN stmt /\ c \notin DOMAIN reading

InitCommon ==
    /\ cycle_size \in 0..MaxCycleSize
    /\ CycleBufferField_init(cycle_size).error = None
    /\ phase = "declared"
    /\ table = <<>>
    /\ nextpk = 1
    /\ inst = <<>>
    /\ cache = [c \in Clients |-> {}]
    /\ stmt = <<>>
    /\ outcome = [c \in Clients |-> "none"]
    /\ reading = <<>>
    /\ returned = [c \in Clients |-> <<>>]
    /\ hist = <<>>
    /\ log = <<>>
    /\ atomic = {}
    /\ writers = <<>>
    /\ staging = [c \in Clients |-> "clean"]

(* A record type with text slots, as Model.text_buffer of tests.py. *)
Init ==
    /\ InitCommon
    /\ is_fk = FALSE
    /\ users = {}
    /\ credit = MaxAppends

(* CycleBufferField.contribute_to_class: adds the pointer, length and slot *)
(* fields and installs the descriptor; cycle_size is not examined.         *)
ContributeToClass ==
    /\ phase = "declared"
    /\ phase' = "ready"
    /\ UNCHANGED <<cycle_size, is_fk, reading, returned, staging, users, table, nextpk, inst, cache, stmt,
                   outcome, hist, log, atomic, writers, credit>>

(* m = Model() *)
New(c) ==
    /\ phase = "ready"
    /\ Idle(c)
    /\ inst' = Put(inst, c, FreshInstance)
    /\ hist' = Put(hist, c, <<>>)
    /\ cache' = [cache EXCEPT ![c] = {}]
    /\ outcome' = [outcome EXCEPT ![c] = "ok"]
    /\ staging' = [staging EXCEPT ![c] = "clean"]
    /\ UNCHANGED <<cycle_size, is_fk, reading, returned, phase, users, table, nextpk, stmt, log, atomic, writers, credit>>

(* m.save(): INSERT with a new primary key for an unsaved instance, else   *)
(* every column of the row is written from the instance.                   *)
Save(c, pks) ==
    /\ c \in DOMAIN inst
    /\ Idle(c)
    /\ IF inst[c].pk = NoPk
       THEN /\ nextpk \in pks
            /\ table' = Put(table, nextpk, RowOf(inst[c]))
            /\ log' = Put(log, nextpk, hist[c])
            /\ inst' = [inst EXCEPT ![c].pk = nextpk]
            /\ nextpk' = nextpk + 1
            /\ atomic' = IF hist[c] = <<>> THEN atomic \cup {nextpk} ELSE atomic
            /\ writers' = Put(writers, nextpk, {})
       ELSE /\ table' = Put(table, inst[c].pk, RowOf(inst[c]))
            /\ log' = Put(log, inst[c].pk, hist[c])
            /\ atomic' = atomic \ {inst[c].pk}
            /\ writers' = Put(writers, inst[c].pk, {})
            /\ UNCHANGED <<inst, nextpk>>
    /\ outcome' = [outcome EXCEPT ![c] = "ok"]
    /\ staging' = [staging EXCEPT ![c] = IF @ = "dirty" THEN "flushed" ELSE @]
    /\ UNCHANGED <<cycle_size, is_fk, reading, returned, phase, users, cache, stmt, hist, credit>>

(* m = Model.objects.get(pk=pk) *)
Load(c, pk) ==
    /\ phase = "ready"
    /\ Idle(c)
    /\ pk \in DOMAIN table
    /\ inst' = Put(inst, c, InstanceOf(pk, table[pk]))
    /\ hist' = Put(hist, c, log[pk])
    /\ cache' = [cache EXCEPT ![c] = {}]
    /\ outcome' = [outcome EXCEPT ![c] = "ok"]
    /\ staging' = [staging EXCEPT ![c] = "clean"]
    /\ UNCHANGED <<cycle_size, is_fk, reading, returned, phase, users, table, nextpk, stmt, log, atomic, writers, credit>>

(* AppendObject as it would be if the staged append also wrote the row of  *)
(* the instance (a write-through append).                                  *)
AppendObject_WriteThrough(c, value) ==
    /\ c \in DOMAIN inst
    /\ Idle(c)
    /\ credit > 0
    /\ LET r == append_object(inst[c], KeyOf(value))
       IN  /\ inst' = [inst EXCEPT ![c] = r.obj]
           /\ IF r.error = None
              THEN /\ hist' = [hist EXCEPT ![c] = Append(@, KeyOf(value))]
                   /\ credit' = credit - 1
                   /\ cache' = [cache EXCEPT ![c] =
                                   IF is_fk
                                   THEN @ \cup {(inst[c].ptr + inst[c].len) % cycle_size}
                                   ELSE @]
                   /\ outcome' = [outcome EXCEPT ![c] = "ok"]
                   /\ staging' = [staging EXCEPT ![c] = "dirty"]
                   /\ table' = IF inst[c].pk \in DOMAIN table
                               THEN [table EXCEPT ![inst[c].pk] = RowOf(r.obj)]
                               ELSE table
              ELSE /\ outcome' = [outcome EXCEPT ![c] = r.error]
                   /\ UNCHANGED <<hist, cache, credit, table, staging>>
    /\ UNCHANGED <<cycle_size, is_fk, reading, returned, phase, users, nextpk, stmt, log, atomic, writers>>

(* m.buf.append_object(value) *)
AppendObject(c, value) ==
    /\ c \in DOMAIN inst
    /\ Idle(c)
    /\ credit > 0
    /\ LET r == append_object(inst[c], KeyOf(value))
       IN  /\ inst' = [inst EXCEPT ![c] = r.obj]
           /\ IF r.error = None
              THEN /\ hist' = [hist EXCEPT ![c] = Append(@, KeyOf(value))]
                   /\ credit' = credit - 1
                   /\ cache' = [cache EXCEPT ![c] =
                                   IF is_fk
                                   THEN @ \cup {(inst[c].ptr + inst[c].len) % cycle_size}
                                   ELSE @]
                   /\ outcome' = [outcome EXCEPT ![c] = "ok"]
                   /\ staging' = [staging EXCEPT ![c] = "dirty"]
              ELSE /\ outcome' = [outcome EXCEPT ![c] = r.error]
                   /\ UNCHANGED <<hist, cache, credit, staging>>
    /\ UNCHANGED <<cycle_size, is_fk, reading, returned, phase, users, table, nextpk, stmt, log, atomic, writers>>

(* m.buf.append_database(value), up to the execute call: the statement and *)
(* its arguments are built from the field's layout, the value and the      *)
(* instance's primary key (lines 90-126); pointer and length are not read. *)
BuildUpdate(c, value) ==
    /\ c \in DOMAIN inst
    /\ Idle(c)
    /\ stmt' = Put(stmt, c, [value |-> KeyOf(value), pk |-> inst[c].pk])
    /\ UNCHANGED <<cycle_size, is_fk, reading, returned, staging, phase, users, table, nextpk, inst, cache,
                   outcome, hist, log, atomic, writers, credit>>

(* ExecuteUpdate as a client-side read-modify-write: the row is computed   *)
(* from the pointer, length and slots of the caller's instance.            *)
ExecuteUpdate_FromInstance(c) ==
    /\ c \in DOMAIN stmt
    /\ LET pk == stmt[c].pk
       IN  IF pk \in DOMAIN table /\ cycle_size > 0
           THEN /\ credit > 0
                /\ credit' = credit - 1
                /\ writers' = [writers EXCEPT ![pk] = @ \cup {c}]
                /\ table' = [table EXCEPT ![pk] =
                                 RowOf(append_object(inst[c], stmt[c].value).obj)]
                /\ log' = [log EXCEPT ![pk] = Append(@, stmt[c].value)]
           ELSE UNCHANGED <<table, log, writers, credit>>
    /\ outcome' = [outcome EXCEPT ![c] = "ok"]
    /\ stmt' = Drop(stmt, c)
    /\ UNCHANGED <<cycle_size, is_fk, reading, returned, staging, phase, users, nextpk, inst, cache, hist, atomic>>

(* ExecuteUpdate as it would be for a statement without its WHERE clause:  *)
(* the SET list is applied to every row of the table.                      *)
ExecuteUpdate_AllRows(c) ==
    /\ c \in DOMAIN stmt
    /\ credit > 0
    /\ credit' = credit - 1
    /\ table' = [pk \in DOMAIN table |->
                    append_database(table[pk], stmt[c].value, "snapshot")]
    /\ log' = [pk \in DOMAIN log |-> Append(log[pk], stmt[c].value)]
    /\ writers' = [pk \in DOMAIN writers |-> writers[pk] \cup {c}]
    /\ outcome' = [outcome EXCEPT ![c] = "ok"]
    /\ stmt' = Drop(stmt, c)
    /\ UNCHANGED <<cycle_size, is_fk, reading, returned, staging, phase, users, nextpk, inst, cache, hist, atomic>>

(* ExecuteUpdate as it would be if the call then refreshed the caller's    *)
(* instance from the row it updated.                                       *)
ExecuteUpdate_Refresh(c) ==
    /\ c \in DOMAIN stmt
    /\ LET pk == stmt[c].pk
       IN  IF pk \in DOMAIN table /\ ~UpdateFails(table[pk])
           THEN /\ credit > 0
                /\ credit' = credit - 1
                /\ writers' = [writers EXCEPT ![pk] = @ \cup {c}]
                /\ table' = [table EXCEPT ![pk] =
                                 append_database(@, stmt[c].value, "snapshot")]
                /\ log' = [log EXCEPT ![pk] = Append(@, stmt[c].value)]
                /\ inst' = [inst EXCEPT ![c] =
                               InstanceOf(pk, append_database(table[pk], stmt[c].value, "snapshot"))]
           ELSE UNCHANGED <<table, log, writers, credit, inst>>
    /\ outcome' = [outcome EXCEPT ![c] = "ok"]
    /\ stmt' = Drop(stmt, c)
    /\ UNCHANGED <<cycle_size, is_fk, reading, returned, staging, phase, users, nextpk, cache, hist, atomic>>

(* connection.cursor().execute(sql, args) (line 128): the engine applies   *)
(* the whole SET list to the row the WHERE clause selects, if there is     *)
(* one; the call returns normally whether or not a row matched.            *)
ExecuteUpdate(c) ==
    /\ c \in DOMAIN stmt
    /\ LET pk == stmt[c].pk
       IN  IF pk \in DOMAIN table
           THEN IF UpdateFails(table[pk])
                THEN /\ \E o \in {"DatabaseError", "ok"} :
                            outcome' = [outcome EXCEPT ![c] = o]
                     /\ UNCHANGED <<table, log, writers, credit>>
                ELSE /\ credit > 0
                     /\ writers' = [writers EXCEPT ![pk] = @ \cup {c}]
                     /\ credit' = credit - 1
                     /\ \E mode \in EvalModes :
                            table' = [table EXCEPT ![pk] =
                                         append_database(@, stmt[c].value, mode)]
                     /\ log' = [log EXCEPT ![pk] = Append(@, stmt[c].value)]
                     /\ outcome' = [outcome EXCEPT ![c] = "ok"]
           ELSE /\ outcome' = [outcome EXCEPT ![c] = "ok"]
                /\ UNCHANGED <<table, log, writers, credit>>
    /\ stmt' = Drop(stmt, c)
    /\ UNCHANGED <<cycle_size, is_fk, reading, returned, staging, phase, users, nextpk, inst, cache, hist, atomic>>

(* Model.objects.filter(pk=pk).delete(), by anyone. *)
DeleteRecord(pk) ==
    /\ phase = "ready"
    /\ pk \in DOMAIN table
    /\ table' = Drop(table, pk)
    /\ log' = Drop(log, pk)
    /\ atomic' = atomic \ {pk}
    /\ writers' = Drop(writers, pk)
    /\ UNCHANGED <<cycle_size, is_fk, reading, returned, staging, phase, users, nextpk, inst, cache, stmt,
                   outcome, hist, credit>>

(* Creating, saving and loading instances, by the clients cs on the rows pks. *)
Lifecycle(cs, pks) ==
    \/ ContributeToClass
    \/ \E c \in cs : New(c)
    \/ \E c \in cs : Save(c, pks)
    \/ \E c \in cs, pk \in pks : Load(c, pk)

Staged(cs) ==
    \E c \in cs, value \in Appendable : AppendObject(c, value)

Atomic(cs) ==
    \/ \E c \in cs, value \in Appendable : BuildUpdate(c, value)
    \/ \E c \in cs : ExecuteUpdate(c)

Removal(pks) ==
    \E pk \in pks : DeleteRecord(pk)

(* One client working on one record, with every operation. *)
Next ==
    \/ Lifecycle({"c1"}, {1})
    \/ Staged({"c1"})
    \/ Atomic({"c1"})
    \/ Removal({1})

Spec == Init /\ [][Next]_vars

(* Two clients appending to the same record with append_database. *)
InitRace ==
    /\ InitCommon
    /\ is_fk = FALSE
    /\ users = {}
    /\ credit = MaxRaceAppends

NextRace ==
    \/ Lifecycle(Clients, {1})
    \/ Atomic(Clients)

SpecRace == InitRace /\ [][NextRace]_vars

(* Two clients working on the same record of a type with capacity at      *)
(* least 2, each with staged appends and saves as well as append_database. *)
InitStaged ==
    /\ InitCommon
    /\ cycle_size >= 2
    /\ is_fk = FALSE
    /\ users = {}
    /\ credit = MaxStagedAppends

NextStaged ==
    \/ Lifecycle(Clients, {1})
    \/ Staged(Clients)
    \/ Atomic(Clients)

SpecStaged == InitStaged /\ [][NextStaged]_vars

(* One client working on two records of the same type: it may hold either  *)
(* record, or an instance that was never saved, when it appends.           *)
InitRows ==
    /\ InitCommon
    /\ is_fk = FALSE
    /\ users = {}
    /\ credit = MaxRowsAppends

NextRows ==
    \/ Lifecycle({"c1"}, {1, 2})
    \/ Staged({"c1"})
    \/ Atomic({"c1"})
    \/ Removal({1, 2})

SpecRows == InitRows /\ [][NextRows]_vars

(* A stored row found with any pointer in [0, N), any length in [0, N] and *)
(* any slot contents (the three are ordinary columns, writable by any     *)
(* client of the storage), then worked on by one client.                  *)
InitRaw ==
    /\ cycle_size \in 1..MaxCycleSize
    /\ CycleBufferField_init(cycle_size).error = None
    /\ phase = "declared"
    /\ is_fk = FALSE
    /\ users = {}
    /\ \E ptr \in 0..(cycle_size - 1), len \in 0..cycle_size,
          slots \in [SlotIdx -> Values \cup {EmptyText}] :
            table = [pk \in {1} |-> [ptr |-> ptr, len |-> len, slots |-> slots]]
    /\ nextpk = 2
    /\ inst = <<>>
    /\ cache = [c \in Clients |-> {}]
    /\ stmt = <<>>
    /\ outcome = [c \in Clients |-> "none"]
    /\ reading = <<>>
    /\ returned = [c \in Clients |-> <<>>]
    /\ hist = <<>>
    /\ log = [pk \in {1} |-> <<>>]
    /\ atomic = {}
    /\ writers = [pk \in {1} |-> {}]
    /\ staging = [c \in Clients |-> "clean"]
    /\ credit = MaxRawAppends

SpecRaw == InitRaw /\ [][Next]_vars

(* user.delete(): the User row goes, and with it (the ORM's cascade) every *)
(* stored record that has its key in a slot; instances already loaded     *)
(* keep the key.                                                           *)
DeleteUser(key) ==
    /\ phase = "ready"
    /\ key \in users
    /\ users' = users \ {key}
    /\ LET gone == {pk \in DOMAIN table : \E i \in SlotIdx : table[pk].slots[i] = key}
       IN  /\ table' = [pk \in (DOMAIN table) \ gone |-> table[pk]]
           /\ log' = [pk \in (DOMAIN log) \ gone |-> log[pk]]
           /\ writers' = [pk \in (DOMAIN writers) \ gone |-> writers[pk]]
           /\ atomic' = atomic \ gone
    /\ UNCHANGED <<cycle_size, is_fk, reading, returned, staging, phase, nextpk, inst, cache, stmt, outcome,
                   hist, credit>>

(* m.buf, entering __get__ (lines 168-178): pointer and length are read   *)
(* from the instance and the slot names selected; no storage lookup yet.   *)
ReadBegin(c) ==
    /\ c \in DOMAIN inst
    /\ Idle(c)
    /\ reading' = Put(reading, c, 1)
    /\ UNCHANGED <<cycle_size, is_fk, returned, staging, phase, users, table, nextpk, inst,
                   cache, stmt, outcome, hist, log, atomic, writers, credit>>

(* One getattr(obj, x) of line 180.  On a ForeignKey slot whose related    *)
(* object is not cached this is a storage lookup of its own: it raises     *)
(* DoesNotExist, ending the read, if the row is gone by then, and leaves   *)
(* the object cached on the instance otherwise.                            *)
ReadGetattr(c) ==
    /\ c \in DOMAIN reading
    /\ reading[c] <= Len(indexes(inst[c]))
    /\ LET idx == indexes(inst[c])[reading[c]]
       IN  IF is_fk /\ RelatedRaises(inst[c], cache[c], idx)
           THEN /\ outcome' = [outcome EXCEPT ![c] = "DoesNotExist"]
                /\ reading' = Drop(reading, c)
                /\ UNCHANGED cache
           ELSE /\ cache' = [cache EXCEPT ![c] =
                                IF is_fk /\ inst[c].slots[idx] # None
                                THEN @ \cup {idx}
                                ELSE @]
                /\ reading' = [reading EXCEPT ![c] = @ + 1]
                /\ UNCHANGED outcome
    /\ UNCHANGED <<cycle_size, is_fk, returned, staging, phase, users, table, nextpk, inst,
                   stmt, hist, log, atomic, writers, credit>>

(* Lines 183-188, after the last getattr: for ForeignKey slots the keys    *)
(* are looked up with one in_bulk query on storage as it is then, and a    *)
(* key it does not return gives None; otherwise the values fetched at line *)
(* 180 are the list.                                                        *)
ReadInBulk(c) ==
    /\ c \in DOMAIN reading
    /\ reading[c] = Len(indexes(inst[c])) + 1
    /\ LET idxs == indexes(inst[c])
           pks  == [i \in 1..Len(idxs) |-> inst[c].slots[idxs[i]]]
       IN  returned' = [returned EXCEPT ![c] =
                         IF is_fk
                         THEN [i \in 1..Len(pks) |->
                                  IF pks[i] \in users THEN UserObj(pks[i]) ELSE MissingMarker]
                         ELSE pks]
    /\ outcome' = [outcome EXCEPT ![c] = "ok"]
    /\ reading' = Drop(reading, c)
    /\ UNCHANGED <<cycle_size, is_fk, staging, phase, users, table, nextpk, inst, cache,
                   stmt, hist, log, atomic, writers, credit>>

(* m.buf : the descriptor's __get__ on a record with ForeignKey slots, one *)
(* storage lookup per step; other clients' deletions may fall in between.  *)
Read(c) ==
    \/ ReadBegin(c)
    \/ ReadGetattr(c)
    \/ ReadInBulk(c)

(* A record type with ForeignKey(User, null=True) slots, as                *)
(* FKModel.user_buffer of tests.py, with every User present at first.      *)
InitFK ==
    /\ InitCommon
    /\ is_fk = TRUE
    /\ users = UserKeys
    /\ credit = MaxFKAppends

NextFK ==
    \/ Next
    \/ \E key \in UserKeys : DeleteUser(key)
    \/ \E c \in {"c1"} : Read(c)

SpecFK == InitFK /\ [][NextFK]_vars

(* ------------------------------ properties ----------------------------- *)
(* The last min(Len(s), n) elements of s. *)
LastN(s, n) == SubSeq(s, Len(s) - Min(Len(s), n) + 1, Len(s))

(* The instance reached from obj by staged appends of the given values. *)
RECURSIVE ReplayFrom(_, _)
ReplayFrom(obj, values) ==
    IF values = <<>>
    THEN obj
    ELSE ReplayFrom(append_object(obj, Head(values)).obj, Tail(values))

(* What a client that loads row pk reads as its buffer. *)
ReadRow(pk) == Get(InstanceOf(pk, table[pk]), {})

(* C1: an instance reads as the last min(k, N) of the k values appended    *)
(* to reach it, in append order, with or without saves in between; so each *)
(* append_object adds its value at the end and drops the oldest value once *)
(* N values are held.                                                       *)
C1_StagedAppendsReadLastN ==
    \A c \in DOMAIN inst :
        cycle_size >= 1 =>
            Get(inst[c], cache[c]) = [error |-> None, value |-> LastN(hist[c], cycle_size)]

C1_Witness ==
    /\ cycle_size = 3
    /\ "c1" \in DOMAIN inst
    /\ inst["c1"].pk = NoPk
    /\ hist["c1"] = <<"a", "b", "a", "b", "b">>
    /\ Get(inst["c1"], cache["c1"]).value = <<"a", "b", "b">>

(* C2: a stored row that has taken the values log[pk], whether one at a   *)
(* time by append_database on a row inserted empty or by append_object and *)
(* save, holds the pointer, length and slots, and reads as the buffer,     *)
(* that append_object gives for the same values from a fresh record.       *)
C2_DatabaseEqualsStaged ==
    \A pk \in DOMAIN table :
        cycle_size >= 1 =>
            /\ table[pk] = RowOf(ReplayFrom(FreshInstance, log[pk]))
            /\ ReadRow(pk) = Get(ReplayFrom(FreshInstance, log[pk]), {})

C2_Witness ==
    /\ cycle_size = 3
    /\ 1 \in atomic
    /\ Len(log[1]) = 6
    /\ table[1].ptr = 0
    /\ table[1].len = 3

(* C3: with two clients issuing append_database calls against one row that *)
(* was inserted empty, after k statements have executed the row is the one *)
(* sequential application of the k values in execution order gives: its    *)
(* length is min(k, N) and it reads as the last min(k, N) values, oldest   *)
(* first.                                                                   *)
C3_ConcurrentAppendsSerialize ==
    \A pk \in atomic :
        cycle_size >= 1 =>
            /\ table[pk] = RowOf(ReplayFrom(FreshInstance, log[pk]))
            /\ table[pk].len = Min(Len(log[pk]), cycle_size)
            /\ ReadRow(pk).value = LastN(log[pk], cycle_size)

C3_Witness ==
    /\ cycle_size = 2
    /\ 1 \in atomic
    /\ writers[1] = Clients
    /\ Len(log[1]) = 3
    /\ DOMAIN stmt # {}

(* The row a stored row becomes when value is appended to it: a function   *)
(* of the stored row and the value alone.                                  *)
StoredEffect(pk, value) ==
    RowOf(append_object(InstanceOf(pk, table[pk]), value).obj)

(* C4: every executed append_database statement turns the stored row into  *)
(* StoredEffect of that row and the value, whatever pointer, length and    *)
(* slots the calling client's instance holds.                              *)
C4_EffectIndependentOfCaller ==
    [][\A c \in DOMAIN stmt :
          (c \notin DOMAIN stmt' /\ stmt[c].pk \in DOMAIN table /\ cycle_size >= 1) =>
              table'[stmt[c].pk] = StoredEffect(stmt[c].pk, stmt[c].value)]_vars

C4_Witness ==
    /\ cycle_size >= 2
    /\ 1 \in atomic
    /\ writers[1] = Clients
    /\ DOMAIN inst = Clients
    /\ inst["c1"].pk = 1
    /\ inst["c2"].pk = 1
    /\ RowOf(inst["c1"]) # RowOf(inst["c2"])
    /\ RowOf(inst["c1"]) # table[1]
    /\ RowOf(inst["c2"]) # table[1]

(* The three effects of appending value to the row old, all present in new. *)
AllThreeEffects(old, new, value) ==
    /\ new.slots[(old.ptr + old.len) % cycle_size] = value
    /\ new.ptr = (IF old.len = cycle_size THEN (old.ptr + 1) % cycle_size ELSE old.ptr)
    /\ new.len = Min(old.len + 1, cycle_size)

(* C5: a step that executes an append_database statement leaves the row it *)
(* addresses either with the slot write, the pointer update and the length *)
(* update all applied, or exactly as it was.                               *)
C5_AllOrNothing ==
    [][\A c \in DOMAIN stmt :
          (c \notin DOMAIN stmt' /\ stmt[c].pk \in DOMAIN table) =>
              /\ stmt[c].pk \in DOMAIN table'
              /\ \/ table'[stmt[c].pk] = table[stmt[c].pk]
                 \/ /\ cycle_size >= 1
                    /\ AllThreeEffects(table[stmt[c].pk], table'[stmt[c].pk], stmt[c].value)]_vars

C5_Witness ==
    /\ cycle_size = 2
    /\ 1 \in DOMAIN table
    /\ writers[1] = Clients
    /\ table[1].len = 2
    /\ table[1].ptr = 1

(* C6 (as claimed): an append_database call whose instance has a primary   *)
(* key that no stored row has ends with a failure reported to the caller   *)
(* and storage unchanged.                                                   *)
C6_MissingRowReported ==
    [][\A c \in DOMAIN stmt :
          (c \notin DOMAIN stmt' /\ stmt[c].pk # NoPk /\ stmt[c].pk \notin DOMAIN table) =>
              /\ outcome'[c] # "ok"
              /\ table' = table]_vars

InRange(row) ==
    /\ row.ptr \in 0..(cycle_size - 1)
    /\ row.len \in 0..cycle_size

(* C8: every instance and every stored row reached by append_object and    *)
(* append_database calls has its pointer in [0, N) and its length in       *)
(* [0, N], and reads as exactly `length` elements.                         *)
C8_PointerAndLengthInRange ==
    cycle_size >= 1 =>
        /\ \A c \in DOMAIN inst :
              /\ InRange(inst[c])
              /\ Len(Get(inst[c], cache[c]).value) = inst[c].len
        /\ \A pk \in DOMAIN table :
              /\ InRange(table[pk])
              /\ Len(ReadRow(pk).value) = table[pk].len

C8_Witness ==
    /\ cycle_size = 3
    /\ 1 \in DOMAIN table
    /\ 1 \notin atomic
    /\ writers[1] # {}
    /\ table[1].len = 3
    /\ table[1].ptr = 2

(* C9 (as claimed): a record type is only ever ready for use with a        *)
(* capacity of at least 1.                                                  *)
C9_CapacityChecked ==
    phase = "ready" => cycle_size >= 1

(* C7 (as claimed): a record whose length is 0 reads as the empty          *)
(* sequence, whatever its pointer.                                          *)
C7_EmptyWheneverLengthZero ==
    \A c \in DOMAIN inst :
        inst[c].len = 0 => Get(inst[c], cache[c]).value = <<>>

(* C10 (as claimed): the read of a buffer of reference slots never fails   *)
(* because a referenced record has been deleted: every read that ends,     *)
(* ends normally, with one position per selected slot, holding the missing *)
(* marker if the slot's key is absent from the bulk lookup and the record  *)
(* of the key otherwise.                                                    *)
C10_ReadToleratesDangling ==
    [][\A c \in DOMAIN reading :
          (is_fk /\ c \notin DOMAIN reading') =>
              LET idxs == indexes(inst[c])
              IN  /\ outcome'[c] = "ok"
                  /\ Len(returned'[c]) = Len(idxs)
                  /\ \A i \in 1..Len(idxs) :
                        returned'[c][i] = IF inst[c].slots[idxs[i]] \in users
                                        THEN UserObj(inst[c].slots[idxs[i]])
                                        ELSE MissingMarker]_vars

(* C11: a step in which a client's instance takes a staged append (its     *)
(* history grows by one value and no statement is in flight for it) leaves *)
(* every stored row, and what a reload of it reads, as it was; so after    *)
(* any number of such steps the row read back is the one the last save,    *)
(* insert or append_database left.                                          *)
C11_StagedAppendLeavesStorage ==
    [][\A c \in DOMAIN inst :
          (/\ c \in DOMAIN hist
           /\ c \in DOMAIN hist'
           /\ Len(hist'[c]) = Len(hist[c]) + 1
           /\ credit' = credit - 1
           /\ stmt' = stmt) =>
              /\ table' = table
              /\ \A pk \in DOMAIN table :
                    Get(InstanceOf(pk, table'[pk]), {}) = ReadRow(pk)]_vars

C11_Witness ==
    /\ cycle_size = 2
    /\ "c1" \in DOMAIN inst
    /\ inst["c1"].pk = 1
    /\ 1 \in DOMAIN table
    /\ log[1] = <<"a">>
    /\ hist["c1"] = <<"a", "b", "a">>
    /\ ReadRow(1).value = <<"a">>
    /\ Get(inst["c1"], cache["c1"]).value = <<"b", "a">>

(* C12: with two clients on one record of capacity at least 2, every       *)
(* executed append_database statement keeps the value appended last before *)
(* it: the row then reads with that value and the new one as its last two  *)
(* elements, whatever the calling client's instance holds.  (The staged    *)
(* counterpart, where a save erases the other client's saved append, is    *)
(* the reachable state C12_Witness.)                                        *)
C12_AtomicAppendsBothSurvive ==
    [][\A c \in DOMAIN stmt :
          (/\ c \notin DOMAIN stmt'
           /\ stmt[c].pk \in DOMAIN table
           /\ cycle_size >= 2
           /\ table[stmt[c].pk].len >= 1) =>
              LET before == ReadRow(stmt[c].pk).value
                  after  == Get(InstanceOf(stmt[c].pk, table'[stmt[c].pk]), {}).value
              IN  /\ Len(after) >= 2
                  /\ after[Len(after)] = stmt[c].value
                  /\ after[Len(after) - 1] = before[Len(before)]]_vars

(* Both clients hold record 1 and each has saved a staged append, "a" by   *)
(* c1 and "b" by c2; the last save left the row with "b" alone, so the     *)
(* saved "a" is lost.  Since that save the row has taken an                *)
(* append_database of "a" by c1, whose instance never held "b", and holds  *)
(* both values.                                                             *)
C12_Witness ==
    /\ cycle_size = 3
    /\ DOMAIN inst = Clients
    /\ inst["c1"].pk = 1
    /\ inst["c2"].pk = 1
    /\ staging["c1"] = "flushed"
    /\ staging["c2"] = "flushed"
    /\ hist["c1"] = <<"a">>
    /\ hist["c2"] = <<"b">>
    /\ 1 \in DOMAIN table
    /\ writers[1] = {"c1"}
    /\ log[1] = <<"b", "a">>
    /\ ReadRow(1).value = <<"b", "a">>

(* The `length` values slots[(pointer + i) mod N], i = 0 .. length-1: the  *)
(* physical slot order rotated left by pointer and truncated to length.    *)
RotatedRead(obj) ==
    [i \in 1..obj.len |-> obj.slots[(obj.ptr + (i - 1)) % cycle_size]]

(* C13 (as claimed): every record with pointer in [0, N) and length in     *)
(* [0, N], loaded from storage, reads as the rotated and truncated slot    *)
(* sequence.                                                                *)
C13_ReadIsRotationTruncated ==
    \A c \in DOMAIN inst :
        (cycle_size >= 1 /\ InRange(inst[c])) =>
            Get(inst[c], cache[c]).value = RotatedRead(inst[c])

(* One append of value taking the record old to new: the slot at           *)
(* (pointer + length) mod N of old holds value, every other slot is as in  *)
(* old, and the pointer is (pointer + 1) mod N if old was full and the     *)
(* pointer of old otherwise.                                                *)
OneSlotWritten(old, new, value) ==
    LET target == (old.ptr + old.len) % cycle_size
    IN  /\ new.slots[target] = value
        /\ \A i \in SlotIdx \ {target} : new.slots[i] = old.slots[i]
        /\ new.ptr = (IF old.len = cycle_size THEN (old.ptr + 1) % cycle_size ELSE old.ptr)
        /\ (new.ptr # old.ptr => old.len = cycle_size)

(* C14: every append_object step on an instance, and every executed        *)
(* append_database statement on a stored row, writes the one slot at       *)
(* (pointer + length) mod N of the state before it, leaves the other N-1   *)
(* slots alone, and moves the pointer (to (pointer + 1) mod N) only when   *)
(* the length before was N.                                                 *)
C14_AppendWritesOneSlot ==
    [][cycle_size >= 1 =>
          /\ \A c \in DOMAIN inst :
                (/\ c \in DOMAIN hist
                 /\ c \in DOMAIN hist'
                 /\ Len(hist'[c]) = Len(hist[c]) + 1
                 /\ credit' = credit - 1
                 /\ stmt' = stmt) =>
                    OneSlotWritten(inst[c], inst'[c], hist'[c][Len(hist'[c])])
          /\ \A c \in DOMAIN stmt :
                (c \notin DOMAIN stmt' /\ stmt[c].pk \in DOMAIN table) =>
                    OneSlotWritten(table[stmt[c].pk], table'[stmt[c].pk], stmt[c].value)]_vars

(* A full record stored with its pointer at the last slot has taken one    *)
(* staged append on a loaded instance: the value is in the last slot, the  *)
(* other two slots are as stored, and the pointer has wrapped to 0.        *)
C14_Witness ==
    /\ cycle_size = 3
    /\ 1 \in DOMAIN table
    /\ table[1] = [ptr |-> 2, len |-> 3, slots |-> (0 :> "b" @@ 1 :> "b" @@ 2 :> "b")]
    /\ "c1" \in DOMAIN inst
    /\ hist["c1"] = <<"a">>
    /\ RowOf(inst["c1"]) = [ptr |-> 0, len |-> 3, slots |-> (0 :> "b" @@ 1 :> "b" @@ 2 :> "a")]

(* C15: a step that executes an append_database statement leaves the set   *)
(* of stored rows as it was and every row other than the one with the      *)
(* caller's primary key unchanged; when no stored row has that key (an     *)
(* unsaved instance, or a record deleted since) no row changes at all.     *)
C15_OnlyTheCallersRow ==
    [][\A c \in DOMAIN stmt :
          c \notin DOMAIN stmt' =>
              /\ DOMAIN table' = DOMAIN table
              /\ \A pk \in DOMAIN table : pk # stmt[c].pk => table'[pk] = table[pk]
              /\ stmt[c].pk \notin DOMAIN table => table' = table]_vars

(* Two records are stored; the first has taken two append_database         *)
(* statements and holds their values, the second is as it was inserted.    *)
C15_Witness ==
    /\ cycle_size = 2
    /\ DOMAIN table = {1, 2}
    /\ writers[1] = {"c1"}
    /\ writers[2] = {}
    /\ log[1] = <<"a", "b">>
    /\ log[2] = <<>>
    /\ ReadRow(1).value = <<"a", "b">>
    /\ table[2] = RowOf(FreshInstance)

(* A record in the shape the appends keep: the pointer is 0 until the      *)
(* buffer is full, the slots not yet filled (those from index `length` up) *)
(* still hold their default, and the slice-based read of __get__ is the    *)
(* rotated, truncated slot sequence.                                        *)
FillShape(obj, cached) ==
    /\ obj.ptr # 0 => obj.len = cycle_size
    /\ \A i \in SlotIdx : (obj.len < cycle_size /\ i >= obj.len) => obj.slots[i] = SlotDefault
    /\ Get(obj, cached).value = RotatedRead(obj)

(* C16: every instance and every stored row reached from a freshly created *)
(* record by append_object and append_database calls (with saves and       *)
(* reloads in between) has a non-zero pointer only when its length is N,   *)
(* has been filled in index order, and reads by slices as it reads by      *)
(* slots[(pointer + i) mod N], i in [0, length).                           *)
C16_PointerZeroUntilFull ==
    /\ \A c \in DOMAIN inst : FillShape(inst[c], cache[c])
    /\ \A pk \in DOMAIN table : FillShape(InstanceOf(pk, table[pk]), {})

(* After five appends to a record of capacity 3 the pointer is 2 and the   *)
(* read wraps around the end of the slots.                                 *)
C16_Witness ==
    /\ cycle_size = 3
    /\ "c1" \in DOMAIN inst
    /\ inst["c1"].ptr = 2
    /\ inst["c1"].len = 3
    /\ hist["c1"] = <<"a", "a", "b", "a", "b">>
    /\ inst["c1"].slots = (0 :> "a" @@ 1 :> "b" @@ 2 :> "b")
    /\ Get(inst["c1"], cache["c1"]).value = <<"b", "a", "b">>
    /\ 1 \in DOMAIN table
    /\ table[1].ptr = 1
    /\ table[1].len = 3

(* C17: for every stored row and every value, the UPDATE statement of      *)
(* append_database gives the same row whether the engine evaluates every   *)
(* right-hand side on the row as it was before the statement or evaluates  *)
(* the assignments left to right on the row as assigned so far.            *)
C17_EvaluationOrderIrrelevant ==
    \A pk \in DOMAIN table :
        \A value \in Appendable :
            append_database(table[pk], KeyOf(value), "snapshot") =
                append_database(table[pk], KeyOf(value), "sequential")

(* A full row stored with its pointer at the last slot has taken an        *)
(* append_database statement: slot 2 was written and the pointer wrapped   *)
(* to 0, where evaluating the pointer assignment before the slot           *)
(* assignments would have written slot 0.                                  *)
C17_Witness ==
    /\ cycle_size = 3
    /\ 1 \in DOMAIN table
    /\ writers[1] = {"c1"}
    /\ log[1] = <<"a">>
    /\ table[1] = [ptr |-> 0, len |-> 3, slots |-> (0 :> "b" @@ 1 :> "b" @@ 2 :> "a")]

(* C18: a step of an append_database call (building the statement, or      *)
(* executing it) leaves every in-memory instance, and the buffer read from *)
(* it, as it was; when the statement updates a row, an instance loaded     *)
(* from that row afterwards reads the appended value as its last element.  *)
C18_CallerInstanceUntouched ==
    [][stmt' # stmt =>
          /\ inst' = inst
          /\ \A c \in DOMAIN inst :
                Get(inst'[c], cache'[c]) = Get(inst[c], cache[c])
          /\ \A c \in DOMAIN stmt :
                (/\ c \notin DOMAIN stmt'
                 /\ stmt[c].pk \in DOMAIN table
                 /\ cycle_size >= 1) =>
                    LET after == Get(InstanceOf(stmt[c].pk, table'[stmt[c].pk]), {}).value
                    IN  /\ Len(after) >= 1
                        /\ after[Len(after)] = stmt[c].value]_vars

(* The client's saved, empty instance has made two append_database calls:  *)
(* it still reads as empty, while the stored row reads both values.        *)
C18_Witness ==
    /\ cycle_size = 3
    /\ "c1" \in DOMAIN inst
    /\ inst["c1"].pk = 1
    /\ stmt = <<>>
    /\ 1 \in DOMAIN table
    /\ writers[1] = {"c1"}
    /\ log[1] = <<"a", "b">>
    /\ RowOf(inst["c1"]) = RowOf(FreshInstance)
    /\ Get(inst["c1"], cache["c1"]).value = <<>>
    /\ ReadRow(1).value = <<"a", "b">>

====
